---- MODULE Spec2Model ----
(***************************************************************************)
(* Quest & Progression engine of the scavenger hunt.                       *)
(*                                                                         *)
(*   utils/quest.py     generate_quest, check_detections                   *)
(*   utils/progress.py  load_progress, save_progress, on_quest_completed   *)
(*   utils/completed.py save_completed_project, load_completed_projects,   *)
(*                      is_project_completed                               *)
(*   utils/projects.py  get_project_suggestions                            *)
(*   app.py             _new_quest, _handle_detections                     *)
(*                                                                         *)
(* Every browser session has its own quest state (st.session_state); all   *)
(* sessions run as threads of one process and share the module-level       *)
(* _DEFAULTS dictionary of utils/progress.py and the file progress.json.   *)
(*                                                                         *)
(* _handle_detections is modelled as callable in every state of a session  *)
(* (the page calls it only while the quest is open, which is a subset).    *)
(* Its completion branch is cut where it touches what sessions share: at   *)
(* load_progress, at on_quest_completed (the list of _DEFAULTS, the        *)
(* clock), at the open and at the dump of save_progress.                   *)
(*                                                                         *)
(* save_completed_project is cut in the same way, at the open and at the   *)
(* dump of _save_raw.                                                      *)
(*                                                                         *)
(*   SpecQuest  one session, batch after batch                             *)
(*   SpecStore  one session, quest after quest, on any days                *)
(*   Spec       concurrent sessions completing against the shared store    *)
(*   SpecFault  one session; the store in any shape, saves that fail, the  *)
(*              process dying during a save                                *)
(*   SpecAppend one session marking projects as complete                   *)
(*   SpecRace   concurrent sessions marking projects as complete           *)
(*   SpecLog    one session marking projects as complete and reading the   *)
(*              log                                                        *)
(*   SpecLogFault  the same, the log in any shape                          *)
(*   SpecCalls  calls of generate_quest and get_project_suggestions        *)
(***************************************************************************)
EXTENDS Integers, Sequences, FiniteSets, TLC

(***************************************************************************)
(* Bounds of the model.                                                    *)
(***************************************************************************)
NumSessions == 2      \* browser sessions sharing the process and the file
MaxBatch    == 2      \* detections in one batch
MaxShuffles == 2      \* outcomes of random.shuffle that are explored
MaxLabels   == 2      \* distinct labels in the short batches
MaxDay      == 3      \* calendar days are 0 .. MaxDay
MaxScore    == 300    \* a session stops scanning beyond this score
MaxCompletions == 2   \* quests one session completes in a row
MaxProjects == 3      \* catalog projects that are marked as complete
MaxRequest  == 37     \* quest sizes asked of generate_quest are 0 .. MaxRequest
MaxDetected == 3      \* detected names passed to get_project_suggestions
MaxResults  == 3      \* max_results is -1 .. MaxResults
MaxWrites   == 3      \* writes of the log after which racing sessions stop

Sessions == 1 .. NumSessions
Days     == 0 .. MaxDay

(***************************************************************************)
(* Generic helpers for Python lists.                                       *)
(***************************************************************************)
Range(seq) == { seq[i] : i \in 1 .. Len(seq) }

\* seq[:n]; a negative n counts from the end of the list
Slice(seq, n) ==
  SubSeq(seq, 1, IF n < 0 THEN (IF Len(seq) + n > 0 THEN Len(seq) + n ELSE 0)
                 ELSE IF n < Len(seq) THEN n ELSE Len(seq))

\* reversed(seq)
Reverse(seq) == [i \in 1 .. Len(seq) |-> seq[Len(seq) + 1 - i]]

\* all lists over alphabet of length at most n
SeqsUpTo(alphabet, n) == UNION { [1 .. k -> alphabet] : k \in 0 .. n }

\* the list rotated left by k places
Rotate(seq, k) ==
  [i \in 1 .. Len(seq) |-> seq[((i - 1 + k) % Len(seq)) + 1]]

(***************************************************************************)
(* utils/quest.py                                                          *)
(***************************************************************************)
PREFERRED_CLASSES ==
  << "person", "cat", "dog", "cup", "bottle", "book", "chair",
     "laptop", "cell phone", "keyboard", "mouse", "remote", "clock",
     "backpack", "teddy bear", "scissors", "toothbrush", "apple",
     "banana", "orange", "couch", "potted plant", "bowl", "spoon",
     "fork", "vase", "bed", "tv", "sink", "refrigerator", "umbrella",
     "cake", "pizza", "donut", "sandwich", "carrot" >>

\* default of generate_quest's parameter n
QuestSize == 5

\* random.shuffle(pool): the explored outcomes are the first MaxShuffles
\* rotations of the pool
Shuffles == { Rotate(PREFERRED_CLASSES, k) : k \in 0 .. MaxShuffles - 1 }

generate_quest_short(shuffled, n) == Slice(shuffled, n - 1)

\* generate_quest(n) for one outcome of the shuffle
generate_quest(shuffled, n) == Slice(shuffled, n)

\* The batches that are explored: every list of at most MaxBatch detections
\* over the first MaxLabels labels (targets of some explored quests, bonus
\* labels for the others), and the photo that shows every target at once.
DetLabels == Range(Slice(PREFERRED_CLASSES, MaxLabels))

Batches(qitems) == SeqsUpTo(DetLabels, MaxBatch) \cup { qitems }

check_detections_any(detected_names, qitems, qfound) ==
  LET Test(name) == name \notin qfound
  IN SelectSeq(detected_names, Test)

\* [name for name in detected_names
\*  if name in quest_items and name not in quest_found]
check_detections(detected_names, qitems, qfound) ==
  LET Test(name) == name \in Range(qitems) /\ name \notin qfound
  IN SelectSeq(detected_names, Test)


bonus_names_dedup(detected_names, qitems) ==
  LET Keep(i) == /\ detected_names[i] \notin Range(qitems)
                 /\ \A j \in 1 .. i - 1 : detected_names[j] # detected_names[i]
      F[i \in 0 .. Len(detected_names)] ==
        IF i = 0 THEN << >>
        ELSE IF Keep(i) THEN Append(F[i - 1], detected_names[i]) ELSE F[i - 1]
  IN F[Len(detected_names)]

\* bonus_names = [n for n in detected_names if n not in quest_items]
bonus_names_of(detected_names, qitems) ==
  LET Test(n) == n \notin Range(qitems)
  IN SelectSeq(detected_names, Test)

\* points per newly found target and per bonus detection
TargetReward == 50
BonusReward  == 5

all_found_always(qitems, qfound, completed) == Range(qitems) \subseteq qfound

\* all_found and not st.session_state.quest_completed
completion_fires(qitems, qfound, completed) ==
  Range(qitems) \subseteq qfound /\ ~completed

completed_after_recomputed(qitems, qfound, completed) ==
  completion_fires(qitems, qfound, completed)

\* the value of st.session_state.quest_completed when the handler returns
completed_after(qitems, qfound, completed) ==
  completed \/ completion_fires(qitems, qfound, completed)

(***************************************************************************)
(* utils/progress.py                                                       *)
(***************************************************************************)
\* Python's None, in the fields that hold a day or a time
None == -1

\* _DEFAULTS without its "trophies" entry, which is one mutable list object
\* shared by every dictionary that _DEFAULTS.copy() or setdefault hands out
\* (the variable defaults_trophies holds what that list contains)
DEFAULTS ==
  [ streak |-> 0, last_session_date |-> None, best_time |-> None,
    total_quests_completed |-> 0 ]

STREAK_TROPHIES ==
  << [threshold |-> 3,  trophy |-> "Hot Streak"],
     [threshold |-> 7,  trophy |-> "On Fire!"],
     [threshold |-> 30, trophy |-> "Legendary Streak"] >>

QUEST_TROPHIES ==
  << [threshold |-> 1,  trophy |-> "First Quest!"],
     [threshold |-> 5,  trophy |-> "Quest Master"],
     [threshold |-> 10, trophy |-> "Explorer Elite"] >>

SpeedRunSeconds == 60

\* The file progress.json: missing, unparseable (also the empty file that
\* open(_FILE, "w") leaves until the dump is flushed), JSON that is no object
\* (a list, a number, a string, null), or a JSON object. wrong is the set of
\* the object's keys whose value has the wrong type: a string where the
\* program writes a number or a list, a number where it writes a date string
\* or null (the field then holds no value that is read).
MissingFile == [kind |-> "missing"]
CorruptFile == [kind |-> "corrupt"]
NonObjectFile == [kind |-> "nonobject"]
RecordFile(streak, last, trophies, best, total) ==
  [ kind |-> "record", streak |-> streak, last_session_date |-> last,
    trophies |-> trophies, best_time |-> best,
    total_quests_completed |-> total, wrong |-> {} ]

\* a JSON object in which the values of these keys have the wrong type
WrongFile(f, keys) == [f EXCEPT !.wrong = keys]

\* A dictionary in memory. shared = TRUE: its "trophies" entry is the list
\* object of _DEFAULTS (a shallow copy), whose content is read where it
\* lives; FALSE: a list of its own, read from the file.
\* _DEFAULTS.copy()
default_copy ==
  [ streak |-> DEFAULTS.streak,
    last_session_date |-> DEFAULTS.last_session_date,
    trophies |-> << >>, shared |-> TRUE,
    best_time |-> DEFAULTS.best_time,
    total_quests_completed |-> DEFAULTS.total_quests_completed,
    wrong |-> {} ]

\* load_progress() on the file f: a missing file gives the copy of
\* _DEFAULTS; json.load raises on an unparseable file and data.setdefault
\* raises on JSON that is no object, both caught; a JSON object is returned
\* as it is, whatever the types of its values
load_progress(f) ==
  IF f.kind = "record"
  THEN [ streak |-> f.streak, last_session_date |-> f.last_session_date,
         trophies |-> f.trophies, shared |-> FALSE,
         best_time |-> f.best_time,
         total_quests_completed |-> f.total_quests_completed,
         wrong |-> f.wrong ]
  ELSE default_copy

\* data["trophies"]: the shared list is read where it lives
trophies_of(data, dflt_trophies) ==
  IF data.shared THEN dflt_trophies ELSE data.trophies

dumped_stale(data, dflt_trophies) ==
  WrongFile(RecordFile(data.streak, data.last_session_date,
                       trophies_of(data, dflt_trophies), data.best_time,
                       data.total_quests_completed - 1),
            data.wrong)

\* what json.dump(data, f) writes
dumped(data, dflt_trophies) ==
  WrongFile(RecordFile(data.streak, data.last_session_date,
                       trophies_of(data, dflt_trophies), data.best_time,
                       data.total_quests_completed),
            data.wrong)


unlock_unchecked(acc, trophy) ==
  [ trophies |-> Append(acc.trophies, trophy),
    new_list |-> Append(acc.new_list, trophy) ]

\* _unlock(data, new_list, trophy) on acc = [trophies, new_list]
unlock(acc, trophy) ==
  IF trophy \in Range(acc.trophies)
  THEN acc
  ELSE [ trophies |-> Append(acc.trophies, trophy),
         new_list |-> Append(acc.new_list, trophy) ]

milestones_strict(table, value) ==
  LET Reached(e) == value > e.threshold
      hits == SelectSeq(table, Reached)
  IN [i \in 1 .. Len(hits) |-> hits[i].trophy]

\* the trophies of a milestone table whose threshold the value has reached
milestones(table, value) ==
  LET Reached(e) == value >= e.threshold
      hits == SelectSeq(table, Reached)
  IN [i \in 1 .. Len(hits) |-> hits[i].trophy]

earned_record_on_first(best, completion_time, streak, total) ==
     (IF best = None \/ completion_time < best
      THEN << "New Record!" >> ELSE << >>)
  \o (IF completion_time <= SpeedRunSeconds
      THEN << "Speed Run Star" >> ELSE << >>)
  \o milestones(STREAK_TROPHIES, streak)
  \o milestones(QUEST_TROPHIES, total)

\* the trophies on_quest_completed passes to _unlock, in the order of its
\* calls (best is data["best_time"] before the update)
earned(best, completion_time, streak, total) ==
     (IF best # None /\ completion_time < best
      THEN << "New Record!" >> ELSE << >>)
  \o (IF completion_time <= SpeedRunSeconds
      THEN << "Speed Run Star" >> ELSE << >>)
  \o milestones(STREAK_TROPHIES, streak)
  \o milestones(QUEST_TROPHIES, total)

RECURSIVE unlock_all(_, _)
unlock_all(acc, trophies) ==
  IF trophies = << >> THEN acc
  ELSE unlock_all(unlock(acc, Head(trophies)), Tail(trophies))

\* the streak logic. today_str is date.today() as read on entry, today_again
\* is date.today() as read again for the gap
streak_after(data, today_str, today_again) ==
  IF data.last_session_date = None THEN 1
  ELSE IF data.last_session_date = today_str THEN data.streak
  ELSE IF today_again - data.last_session_date = 1 THEN data.streak + 1
  ELSE 1

best_after_latest(best, completion_time) == completion_time

\* data["best_time"] after the update
best_after(best, completion_time) ==
  IF best = None \/ completion_time < best THEN completion_time ELSE best

\* on_quest_completed raises on a value of the wrong type: strptime on a
\* last_session_date that is no date string (line 79); streak + 1 (line 81)
\* or streak >= threshold (line 99) on a streak that is no number, unless
\* the streak logic has assigned 1 before; total_quests_completed + 1
\* (line 84); completion_time < best (line 88); trophy not in
\* data["trophies"] (line 111, reached in every call by "First Quest!")
raises(data, today_str, today_again) ==
  \/ "last_session_date" \in data.wrong
  \/ /\ "streak" \in data.wrong
     /\ data.last_session_date # None
     /\ \/ data.last_session_date = today_str
        \/ today_again - data.last_session_date = 1
  \/ "total_quests_completed" \in data.wrong
  \/ "best_time" \in data.wrong
  \/ "trophies" \in data.wrong

\* on_quest_completed(data, completion_time), when it does not raise: the
\* updated dictionary, the newly unlocked trophies and what the list of
\* _DEFAULTS holds afterwards
on_quest_completed(data, completion_time, today_str, today_again, dflt) ==
  LET streak == streak_after(data, today_str, today_again)
      total  == data.total_quests_completed + 1
      acc    == unlock_all(
                  [trophies |-> trophies_of(data, dflt), new_list |-> << >>],
                  earned(data.best_time, completion_time, streak, total))
  IN [ data |-> [ streak |-> streak,
                  last_session_date |-> today_str,
                  trophies |-> IF data.shared THEN << >> ELSE acc.trophies,
                  shared |-> data.shared,
                  best_time |-> best_after(data.best_time, completion_time),
                  total_quests_completed |-> total,
                  wrong |-> {} ],
       new_trophies |-> acc.new_list,
       defaults |-> IF data.shared THEN acc.trophies ELSE dflt ]

swallow(shown, exception) == shown

\* save_progress raises (OSError) and nothing between it and the page
\* catches: the exception leaves _handle_detections and the page shows it
propagate(shown, exception) == exception

(***************************************************************************)
(* utils/completed.py                                                      *)
(***************************************************************************)
\* titles of the catalog of utils/projects.py, in its order
PROJECT_TITLES ==
  << "Sound Wave Visualizer", "Water Density Tower", "Paper Cup Trebuchet",
     "Air Pressure Rocket" >>

\* The projects "Mark as Complete" is pressed on: a catalog project with
\* p["_objects_detected"] = detected_names or []. The other catalog fields
\* follow from the title; the timestamp completed_at is left out.
Projects ==
  { [title |-> t, objects_detected |-> o] :
      t \in Range(Slice(PROJECT_TITLES, MaxProjects)),
      o \in SeqsUpTo(DetLabels, 1) }

\* The file completed_projects.json: missing, unparseable (also the empty
\* file that open(_FILE, "w") leaves until the dump is flushed), or a JSON
\* array of records.
ListFile(recs) == [kind |-> "list", records |-> recs]

\* _load_raw() on the file f
load_raw(f) == IF f.kind = "list" THEN f.records ELSE << >>

\* existing_titles = {r["title"] for r in records}
existing_titles(recs) == { recs[i].title : i \in 1 .. Len(recs) }

already_stored_never(recs, project) == FALSE

\* project.get("title") in existing_titles
already_stored(recs, project) == project.title \in existing_titles(recs)

\* the record save_completed_project builds
record_of(project) ==
  [title |-> project.title, objects_detected |-> project.objects_detected]

\* a JSON value that is no array
NonArrayFile == [kind |-> "nonarray"]

\* an entry of the array that is an object without the key "title"
UntitledEntry == [objects_detected |-> << >>]

\* r["title"] does not raise KeyError
has_title(r) == "title" \in DOMAIN r

\* {r["title"] for r in records} raises
titles_raise(recs) == \E i \in 1 .. Len(recs) : ~has_title(recs[i])

load_completed_projects_oldest_first(f) == load_raw(f)

\* load_completed_projects() on the file f: list(reversed(records))
load_completed_projects(f) == Reverse(load_raw(f))

\* any(r["title"] == title for r in _load_raw()) raises: any() stops at the
\* first record with the title, and reads r["title"] of every record before
is_project_completed_raises(f, title) ==
  LET recs == load_raw(f)
  IN \E i \in 1 .. Len(recs) :
       /\ ~has_title(recs[i])
       /\ \A j \in 1 .. i - 1 : recs[j].title # title

\* is_project_completed(title) on the file f, when it does not raise
is_project_completed(f, title) ==
  LET recs == load_raw(f)
  IN \E i \in 1 .. Len(recs) : has_title(recs[i]) /\ recs[i].title = title

(***************************************************************************)
(* utils/projects.py                                                       *)
(*                                                                         *)
(* The catalog is kept for the labels cup, bottle and spoon: their entries *)
(* of PROJECT_MAP and the entries of COMBO_MAP whose keys can be matched   *)
(* by the labels that are explored, in the order of the source.            *)
(***************************************************************************)
PROJECT_MAP ==
  << [ label |-> "cup",
       projects |->
         << [ title |-> "Sound Wave Visualizer",
              materials |-> << "cup", "plastic wrap", "rubber band", "salt",
                               "speaker or voice" >> ],
            [ title |-> "Water Density Tower",
              materials |-> << "cup", "corn syrup", "dish soap", "water",
                               "vegetable oil", "food coloring", "ruler" >> ],
            [ title |-> "Paper Cup Trebuchet",
              materials |-> << "cup", "ruler", "pencils", "tape", "coins",
                               "cardboard", "foil" >> ] >> ],
     [ label |-> "bottle",
       projects |->
         << [ title |-> "Air Pressure Rocket",
              materials |-> << "bottle", "water", "cardboard", "tape",
                               "ruler" >> ],
            [ title |-> "Bernoulli Levitator",
              materials |-> << "bottle", "scissors", "foil", "paper" >> ],
            [ title |-> "Ecosystem in a Bottle",
              materials |-> << "bottle", "soil", "small rocks", "seedlings",
                               "water", "plastic wrap", "rubber band" >> ] >> ],
     [ label |-> "spoon",
       projects |->
         << [ title |-> "Spoon Convex/Concave Mirror Lab",
              materials |-> << "spoon", "paper", "pencil", "ruler" >> ],
            [ title |-> "Electrostatics Bender",
              materials |-> << "spoon", "wool fabric", "water",
                               "ruler" >> ] >> ] >>

COMBO_MAP ==
  << [ key |-> { "bottle", "balloon" },
       title |-> "Gas Law Demonstrator",
       materials |-> << "bottle", "balloon", "bowl", "ice", "warm water",
                        "string", "ruler" >> ],
     [ key |-> { "cup", "spoon" },
       title |-> "Non-Newtonian Fluid Lab",
       materials |-> << "cup", "spoon", "cornstarch", "water" >> ],
     [ key |-> { "bottle", "cup" },
       title |-> "Hydraulic Lift Model",
       materials |-> << "bottle", "cup", "straw", "clay", "water",
                        "rubber band", "ruler" >> ] >>

\* the catalog of the module
Catalog == [project_map |-> PROJECT_MAP, combo_map |-> COMBO_MAP]

\* The catalog with two titles written a second time: a project of cup
\* carries the title of a project of bottle, and the combo of bottle and cup
\* the title of another project of bottle. The catalog of the module lists
\* every title once, so that only a repeated label meets seen_titles there.
RetitledCatalog ==
  [ project_map |->
      [PROJECT_MAP EXCEPT ![1].projects[3].title = "Bernoulli Levitator"],
    combo_map |->
      [COMBO_MAP EXCEPT ![3].title = "Air Pressure Rocket"] ]

Catalogs == { Catalog, RetitledCatalog }

\* the detected names that are explored: keys of PROJECT_MAP, a material
\* that is no key, a label of a combo key that is no key, and a label the
\* catalog does not mention
SuggestLabels == { "cup", "bottle", "spoon", "ruler", "balloon", "car" }

\* p["_score"] of a combo project
ComboScore == 1000

\* PROJECT_MAP.get(obj_name, [])
projects_of(project_map, obj_name) ==
  LET hits == { i \in 1 .. Len(project_map) : project_map[i].label = obj_name }
  IN IF hits = {} THEN << >>
     ELSE project_map[CHOOSE i \in hits : TRUE].projects

seen_never(title, seen_titles) == FALSE

\* title in seen_titles
seen_before(title, seen_titles) == title \in seen_titles

combo_candidate_unscored(c) ==
  [title |-> c.title, materials |-> c.materials, score |-> 0,
   is_combo |-> TRUE]

\* p = dict(project); p["_score"] = 1000; p["_is_combo"] = True
combo_candidate(c) ==
  [title |-> c.title, materials |-> c.materials, score |-> ComboScore,
   is_combo |-> TRUE]

overlap_all(project, detected_set) == Cardinality(detected_set)

\* len(set(project.get("materials", [])) & detected_set)
overlap(project, detected_set) ==
  Cardinality(Range(project.materials) \cap detected_set)

\* p = dict(project); p["_score"] = score; p["_is_combo"] = False
single_candidate(project, detected_set) ==
  [title |-> project.title, materials |-> project.materials,
   score |-> overlap(project, detected_set), is_combo |-> FALSE]

\* results and seen_titles before the first pass
NoCandidates == [results |-> << >>, seen_titles |-> {}]

\* results.append(p); seen_titles.add(p["title"])
add_candidate(acc, p) ==
  [results |-> Append(acc.results, p),
   seen_titles |-> acc.seen_titles \cup { p.title }]

\* 1. Combo pass: for key_set, project in COMBO_MAP.items()
combo_pass(combo_map, detected_set) ==
  LET F[i \in 0 .. Len(combo_map)] ==
        IF i = 0 THEN NoCandidates
        ELSE IF /\ combo_map[i].key \subseteq detected_set
                /\ ~seen_before(combo_map[i].title, F[i - 1].seen_titles)
             THEN add_candidate(F[i - 1], combo_candidate(combo_map[i]))
             ELSE F[i - 1]
  IN F[Len(combo_map)]

\* for project in PROJECT_MAP.get(obj_name, [])
label_pass(acc, projects, detected_set) ==
  LET F[i \in 0 .. Len(projects)] ==
        IF i = 0 THEN acc
        ELSE IF seen_before(projects[i].title, F[i - 1].seen_titles)
             THEN F[i - 1]
             ELSE add_candidate(F[i - 1],
                                single_candidate(projects[i], detected_set))
  IN F[Len(projects)]

\* 2. Single-object pass: for obj_name in detected_names
single_pass(acc, project_map, detected_names, detected_set) ==
  LET F[i \in 0 .. Len(detected_names)] ==
        IF i = 0 THEN acc
        ELSE label_pass(F[i - 1], projects_of(project_map, detected_names[i]),
                        detected_set)
  IN F[Len(detected_names)]

\* results, as the two passes leave it
candidates(catalog, detected_names) ==
  LET detected_set == Range(detected_names)
  IN single_pass(combo_pass(catalog.combo_map, detected_set),
                 catalog.project_map, detected_names, detected_set).results

sort_ascending(results) ==
  LET Insert(sorted, x) ==
        LET k == Cardinality({ i \in 1 .. Len(sorted) :
                                 sorted[i].score < x.score })
        IN SubSeq(sorted, 1, k) \o << x >> \o SubSeq(sorted, k + 1, Len(sorted))
      F[i \in 0 .. Len(results)] ==
        IF i = 0 THEN << >> ELSE Insert(F[i - 1], results[i])
  IN F[Len(results)]

\* results.sort(key=lambda x: x["_score"], reverse=True): the sort is
\* stable, an entry goes behind the entries of the same score before it
sort_by_score(results) ==
  LET Insert(sorted, x) ==
        LET k == Cardinality({ i \in 1 .. Len(sorted) :
                                 sorted[i].score >= x.score })
        IN SubSeq(sorted, 1, k) \o << x >> \o SubSeq(sorted, k + 1, Len(sorted))
      F[i \in 0 .. Len(results)] ==
        IF i = 0 THEN << >> ELSE Insert(F[i - 1], results[i])
  IN F[Len(results)]

\* get_project_suggestions(detected_names, max_results)
get_project_suggestions(catalog, detected_names, max_results) ==
  Slice(sort_by_score(candidates(catalog, detected_names)), max_results)

(***************************************************************************)
(* State.                                                                  *)
(***************************************************************************)
VARIABLES
  quest_items,       \* st.session_state.quest_items, per session
  quest_found,       \* st.session_state.quest_found
  quest_completed,   \* st.session_state.quest_completed
  quest_comp_time,   \* st.session_state.quest_comp_time
  session_score,     \* st.session_state.session_score
  new_trophies,      \* st.session_state.new_trophies
  last_detections,   \* st.session_state.last_detections (class names)
  newly_found,       \* _handle_detections' local, as its last call left it
  bonus_names,       \* _handle_detections' local, as its last call left it
  pc,                \* where the session's handler stands
  progress,          \* _handle_detections' local progress
  unlocked,          \* _handle_detections' local new_trophies
  file,              \* data/progress.json
  defaults_trophies, \* the list object _DEFAULTS["trophies"]
  today,             \* date.today(), as a day number
  signals,           \* history: completions signalled for the current quest
  hist,              \* history of the store, see HistInit
  raised,            \* the exception that left _handle_detections in the
                     \* session's current quest and that the page shows
  save_hist,         \* history of the session's save_progress, see NoSave
  log_file,          \* data/completed_projects.json
  log_pc,            \* where the session's save_completed_project stands
  records,           \* save_completed_project's local records
  log_result,        \* how the session's last save_completed_project went
  appended,          \* history: the titles save_completed_project was
                     \* called with
  log_order,         \* history: the titles of the records that were
                     \* written, in the order of the writes
  target_points,     \* history: the points of the current quest's targets
  call               \* the last call of a function that changes nothing,
                     \* with its arguments and what it returned

vars ==
  << quest_items, quest_found, quest_completed, quest_comp_time,
     session_score, new_trophies, last_detections, newly_found, bonus_names,
     pc, progress, unlocked, file, defaults_trophies, today, signals, hist,
     raised, save_hist, log_file, log_pc, records, log_result, appended,
     log_order, target_points, call >>

\* the state of the completed-project log
log_vars == << log_file, log_pc, records, log_result, appended, log_order >>

\* the state of the quests and of the progression store
game_vars ==
  << quest_items, quest_found, quest_completed, quest_comp_time,
     session_score, new_trophies, last_detections, newly_found, bonus_names,
     pc, progress, unlocked, file, defaults_trophies, today, signals, hist,
     raised, save_hist, target_points >>

quest_vars ==
  << quest_items, quest_found, quest_completed, quest_comp_time,
     session_score, new_trophies, last_detections, newly_found, bonus_names,
     signals, target_points >>

\* completion times time.time() - quest_start_time that are explored
CompTimes == { 45, 60, 90 }

\* progress.json as earlier runs of the program can have left it
InitFiles ==
  { MissingFile, CorruptFile,
    RecordFile(2, 1, << "First Quest!" >>, 90, 4),
    RecordFile(6, 1, << "First Quest!", "Hot Streak", "Quest Master" >>,
               90, 9),
    RecordFile(29, 1, << "First Quest!", "Hot Streak", "Quest Master",
                         "On Fire!", "Explorer Elite" >>, 90, 29) }

\* history of the store: the total a load returned at the start, the runs
\* of on_quest_completed so far, every trophy a finished save has stored,
\* and the least completion time so far (at the start, the best time that a
\* load returns)
HistInit(f) ==
  [ total0 |-> load_progress(f).total_quests_completed,
    completions |-> 0,
    stored |-> IF f.kind = "record" THEN Range(f.trophies) ELSE {},
    min_time |-> load_progress(f).best_time ]

\* the lesser of a time, or None, and a time
Least(a, b) == IF a # None /\ a <= b THEN a ELSE b

\* history of a session's save_progress: the file as the open found it,
\* while the save stands between its open and its dump, and whether a save
\* of the current quest has failed
NoSave == [before |-> [kind |-> "none"], failed |-> FALSE]

\* the records that have a title, and the titles of such records
titled(recs) == SelectSeq(recs, has_title)

titles_of(recs) == [i \in 1 .. Len(recs) |-> recs[i].title]

\* no function has been called
NoCall == [op |-> "none"]

\* the completed-project log as earlier runs of the program left it
InitLog(logs) ==
  /\ log_file \in logs
  /\ log_pc = [s \in Sessions |-> "idle"]
  /\ records = [s \in Sessions |-> << >>]
  /\ log_result = [s \in Sessions |-> "none"]
  /\ appended = existing_titles(titled(load_raw(log_file)))
  /\ log_order = titles_of(titled(load_raw(log_file)))

\* _init_state, for the outcomes of the shuffles, a file and a day
InitGame(shuffles, files, days) ==
  /\ quest_items \in [Sessions -> { generate_quest(p, QuestSize) : p \in shuffles }]
  /\ quest_found = [s \in Sessions |-> {}]
  /\ quest_completed = [s \in Sessions |-> FALSE]
  /\ quest_comp_time = [s \in Sessions |-> None]
  /\ session_score = [s \in Sessions |-> 0]
  /\ new_trophies = [s \in Sessions |-> << >>]
  /\ last_detections = [s \in Sessions |-> << >>]
  /\ newly_found = [s \in Sessions |-> << >>]
  /\ bonus_names = [s \in Sessions |-> << >>]
  /\ pc = [s \in Sessions |-> "idle"]
  /\ progress = [s \in Sessions |-> default_copy]
  /\ unlocked = [s \in Sessions |-> << >>]
  /\ file \in files
  /\ defaults_trophies = << >>
  /\ today \in days
  /\ signals = [s \in Sessions |-> 0]
  /\ hist = HistInit(file)
  /\ raised = [s \in Sessions |-> "none"]
  /\ save_hist = [s \in Sessions |-> NoSave]
  /\ target_points = [s \in Sessions |-> 0]

\* the start of the program when no project has been marked as complete
InitWith(shuffles, files, days) ==
  /\ InitGame(shuffles, files, days)
  /\ InitLog({ MissingFile })
  /\ call = NoCall

(***************************************************************************)
(* Operations.                                                             *)
(***************************************************************************)
\* the "New Quest!" button, shown once the quest is completed: _new_quest()
new_quest(s, shuffled) ==
  /\ pc[s] = "idle"
  /\ quest_completed[s]
  /\ quest_items' = [quest_items EXCEPT ![s] = generate_quest(shuffled, QuestSize)]
  /\ quest_found' = [quest_found EXCEPT ![s] = {}]
  /\ quest_completed' = [quest_completed EXCEPT ![s] = FALSE]
  /\ quest_comp_time' = [quest_comp_time EXCEPT ![s] = None]
  /\ new_trophies' = [new_trophies EXCEPT ![s] = << >>]
  /\ last_detections' = [last_detections EXCEPT ![s] = << >>]
  /\ signals' = [signals EXCEPT ![s] = 0]
  /\ raised' = [raised EXCEPT ![s] = "none"]
  /\ save_hist' = [save_hist EXCEPT ![s] = NoSave]
  /\ target_points' = [target_points EXCEPT ![s] = 0]
  /\ UNCHANGED << session_score, newly_found, bonus_names, pc, progress,
                  unlocked, file, defaults_trophies, today, hist >>
  /\ UNCHANGED << log_vars, call >>

\* _handle_detections(detections), up to and including load_progress().
\* comp_time is time.time() - quest_start_time.
handle_detections(s, detected, comp_time) ==
  LET qitems == quest_items[s]
      found  == check_detections(detected, qitems, quest_found[s])
      bonus  == bonus_names_of(detected, qitems)
      qfound == quest_found[s] \cup Range(found)
      score  == session_score[s] + TargetReward * Len(found)
                                 + BonusReward * Len(bonus)
      fires  == completion_fires(qitems, qfound, quest_completed[s])
  IN /\ pc[s] = "idle"
     /\ last_detections' = [last_detections EXCEPT ![s] = detected]
     /\ newly_found' = [newly_found EXCEPT ![s] = found]
     /\ bonus_names' = [bonus_names EXCEPT ![s] = bonus]
     /\ quest_found' = [quest_found EXCEPT ![s] = qfound]
     /\ session_score' = [session_score EXCEPT ![s] = score]
     /\ target_points' = [target_points EXCEPT ![s] =
                            @ + TargetReward * Len(found)]
     /\ quest_completed' = [quest_completed EXCEPT ![s] =
                              completed_after(qitems, qfound, quest_completed[s])]
     /\ IF fires
        THEN /\ quest_comp_time' = [quest_comp_time EXCEPT ![s] = comp_time]
             /\ progress' = [progress EXCEPT ![s] = load_progress(file)]
             /\ pc' = [pc EXCEPT ![s] = "on_quest_completed"]
             /\ signals' = [signals EXCEPT ![s] = @ + 1]
        ELSE UNCHANGED << quest_comp_time, progress, pc, signals >>
     /\ UNCHANGED << quest_items, new_trophies, unlocked, file,
                     defaults_trophies, today, hist, raised, save_hist >>
     /\ UNCHANGED << log_vars, call >>

\* progress, new_trophies = on_quest_completed(progress, comp_time); the
\* clock is read twice and may pass midnight in between
completed_step(s, today_again) ==
  LET r == on_quest_completed(progress[s], quest_comp_time[s], today,
                              today_again, defaults_trophies)
  IN /\ pc[s] = "on_quest_completed"
     /\ today_again \in Days
     /\ ~raises(progress[s], today, today_again)
     /\ progress' = [progress EXCEPT ![s] = r.data]
     /\ unlocked' = [unlocked EXCEPT ![s] = r.new_trophies]
     /\ defaults_trophies' = r.defaults
     /\ today' = today_again
     /\ pc' = [pc EXCEPT ![s] = "save_open"]
     /\ hist' = [hist EXCEPT !.completions = @ + 1,
                             !.min_time = Least(@, quest_comp_time[s])]
     /\ UNCHANGED << quest_vars, file, raised, save_hist >>
     /\ UNCHANGED << log_vars, call >>

\* on_quest_completed(progress, comp_time) raises: the exception leaves
\* _handle_detections, whose callers catch nothing
completed_raises(s, today_again) ==
  /\ pc[s] = "on_quest_completed"
  /\ today_again \in Days
  /\ raises(progress[s], today, today_again)
  /\ today' = today_again
  /\ pc' = [pc EXCEPT ![s] = "idle"]
  /\ raised' = [raised EXCEPT ![s] = "on_quest_completed"]
  /\ UNCHANGED << quest_vars, progress, unlocked, file, defaults_trophies,
                  hist, save_hist >>
  /\ UNCHANGED << log_vars, call >>

\* save_progress: open(_FILE, "w") truncates the file
save_open(s) ==
  /\ pc[s] = "save_open"
  /\ file' = CorruptFile
  /\ pc' = [pc EXCEPT ![s] = "save_dump"]
  /\ save_hist' = [save_hist EXCEPT ![s].before = file]
  /\ UNCHANGED << quest_vars, progress, unlocked, defaults_trophies, today,
                  hist, raised >>
  /\ UNCHANGED << log_vars, call >>

\* save_progress: open(_FILE, "w") raises (permission denied); the file is
\* as it was
save_open_fails(s) ==
  /\ pc[s] = "save_open"
  /\ pc' = [pc EXCEPT ![s] = "idle"]
  /\ raised' = [raised EXCEPT ![s] = propagate(@, "save_progress")]
  /\ save_hist' = [save_hist EXCEPT ![s].failed = TRUE]
  /\ UNCHANGED << quest_vars, progress, unlocked, file, defaults_trophies,
                  today, hist >>
  /\ UNCHANGED << log_vars, call >>

\* save_progress: json.dump and close; then st.session_state.new_trophies
save_dump(s) ==
  /\ pc[s] = "save_dump"
  /\ file' = dumped(progress[s], defaults_trophies)
  /\ new_trophies' = [new_trophies EXCEPT ![s] = unlocked[s]]
  /\ pc' = [pc EXCEPT ![s] = "idle"]
  /\ hist' = [hist EXCEPT !.stored = @ \cup Range(file'.trophies)]
  /\ save_hist' = [save_hist EXCEPT ![s].before = NoSave.before]
  /\ UNCHANGED << quest_items, quest_found, quest_completed, quest_comp_time,
                  session_score, last_detections, newly_found, bonus_names,
                  signals, target_points, progress, unlocked,
                  defaults_trophies, today, raised >>
  /\ UNCHANGED << log_vars, call >>

\* save_progress: the write of json.dump or the close raises (disk full);
\* the file stays cut off
save_dump_fails(s) ==
  /\ pc[s] = "save_dump"
  /\ pc' = [pc EXCEPT ![s] = "idle"]
  /\ raised' = [raised EXCEPT ![s] = propagate(@, "save_progress")]
  /\ save_hist' = [save_hist EXCEPT ![s] = [before |-> NoSave.before,
                                            failed |-> TRUE]]
  /\ UNCHANGED << quest_vars, progress, unlocked, file, defaults_trophies,
                  today, hist >>
  /\ UNCHANGED << log_vars, call >>

\* The process dies while session s stands between the open and the dump of
\* save_progress. The file is what is left; the process is started again
\* (_DEFAULTS as written) and every session runs _init_state.
crash_in_save(s, shuffled) ==
  /\ pc[s] = "save_dump"
  /\ quest_items' = [t \in Sessions |-> generate_quest(shuffled, QuestSize)]
  /\ quest_found' = [t \in Sessions |-> {}]
  /\ quest_completed' = [t \in Sessions |-> FALSE]
  /\ quest_comp_time' = [t \in Sessions |-> None]
  /\ session_score' = [t \in Sessions |-> 0]
  /\ new_trophies' = [t \in Sessions |-> << >>]
  /\ last_detections' = [t \in Sessions |-> << >>]
  /\ newly_found' = [t \in Sessions |-> << >>]
  /\ bonus_names' = [t \in Sessions |-> << >>]
  /\ pc' = [t \in Sessions |-> "idle"]
  /\ progress' = [t \in Sessions |-> default_copy]
  /\ unlocked' = [t \in Sessions |-> << >>]
  /\ defaults_trophies' = << >>
  /\ signals' = [t \in Sessions |-> 0]
  /\ raised' = [t \in Sessions |-> "none"]
  /\ save_hist' = [t \in Sessions |-> NoSave]
  /\ target_points' = [t \in Sessions |-> 0]
  /\ UNCHANGED << file, today, hist >>
  /\ UNCHANGED << log_vars, call >>

\* the calendar day changes (midnight, or the clock is set)
clock_change(d) ==
  /\ d # today
  /\ today' = d
  /\ UNCHANGED << quest_vars, pc, progress, unlocked, file,
                  defaults_trophies, hist, raised, save_hist >>
  /\ UNCHANGED << log_vars, call >>

\* save_completed_project(project), through records.append(record)
append_load(s, project) ==
  LET recs == load_raw(log_file)
  IN /\ log_pc[s] = "idle"
     /\ ~titles_raise(recs)
     /\ appended' = appended \cup { project.title }
     /\ IF already_stored(recs, project)
        THEN /\ records' = [records EXCEPT ![s] = recs]
             /\ log_result' = [log_result EXCEPT ![s] = "ignored"]
             /\ UNCHANGED log_pc
        ELSE /\ records' = [records EXCEPT ![s] =
                              Append(recs, record_of(project))]
             /\ log_result' = [log_result EXCEPT ![s] = "appending"]
             /\ log_pc' = [log_pc EXCEPT ![s] = "save_open"]
     /\ UNCHANGED << log_file, log_order >>
     /\ UNCHANGED << game_vars, call >>

\* save_completed_project(project) raises at {r["title"] for r in records};
\* "Mark as Complete" catches nothing
append_raises(s, project) ==
  /\ log_pc[s] = "idle"
  /\ titles_raise(load_raw(log_file))
  /\ appended' = appended \cup { project.title }
  /\ log_result' = [log_result EXCEPT ![s] = "raised"]
  /\ UNCHANGED << log_file, log_pc, records, log_order >>
  /\ UNCHANGED << game_vars, call >>

\* _save_raw: open(_FILE, "w") truncates the file
log_open(s) ==
  /\ log_pc[s] = "save_open"
  /\ log_file' = CorruptFile
  /\ log_pc' = [log_pc EXCEPT ![s] = "save_dump"]
  /\ UNCHANGED << records, log_result, appended, log_order >>
  /\ UNCHANGED << game_vars, call >>

\* _save_raw: json.dump and close; save_completed_project returns
log_dump(s) ==
  /\ log_pc[s] = "save_dump"
  /\ log_file' = ListFile(records[s])
  /\ log_pc' = [log_pc EXCEPT ![s] = "idle"]
  /\ log_result' = [log_result EXCEPT ![s] = "appended"]
  /\ log_order' = Append(log_order, records[s][Len(records[s])].title)
  /\ UNCHANGED << records, appended >>
  /\ UNCHANGED << game_vars, call >>

\* load_completed_projects(), between two calls of the session's script
load_all(s) ==
  /\ log_pc[s] = "idle"
  /\ call' = [op |-> "load_completed_projects",
              result |-> load_completed_projects(log_file),
              raised |-> FALSE]
  /\ UNCHANGED << game_vars, log_vars >>

\* is_project_completed(title)
is_completed(s, title) ==
  /\ log_pc[s] = "idle"
  /\ ~is_project_completed_raises(log_file, title)
  /\ call' = [op |-> "is_project_completed", title |-> title,
              result |-> is_project_completed(log_file, title),
              raised |-> FALSE]
  /\ UNCHANGED << game_vars, log_vars >>

\* is_project_completed(title) raises at r["title"]
is_completed_raises(s, title) ==
  /\ log_pc[s] = "idle"
  /\ is_project_completed_raises(log_file, title)
  /\ call' = [op |-> "is_project_completed", title |-> title,
              raised |-> TRUE]
  /\ UNCHANGED << game_vars, log_vars >>

\* generate_quest(n) returns, for one outcome of the shuffle; no statement
\* of the function raises
call_generate_quest(shuffled, n) ==
  /\ call = [op |-> "generate_quest", returned |-> FALSE,
             shuffled |-> shuffled, n |-> n]
  /\ call' = [op |-> "generate_quest", returned |-> TRUE, n |-> n,
              result |-> generate_quest(shuffled, n), raised |-> FALSE]
  /\ UNCHANGED << game_vars, log_vars >>

\* get_project_suggestions(detected_names, max_results) returns
call_suggestions(catalog, detected_names, max_results) ==
  /\ call = [op |-> "get_project_suggestions", returned |-> FALSE,
             catalog |-> catalog, detected_names |-> detected_names,
             max_results |-> max_results]
  /\ call' = [op |-> "get_project_suggestions", returned |-> TRUE,
              catalog |-> catalog, detected_names |-> detected_names,
              max_results |-> max_results,
              result |-> get_project_suggestions(catalog, detected_names,
                                                 max_results)]
  /\ UNCHANGED << game_vars, log_vars >>

(***************************************************************************)
(* Specifications.                                                         *)
(***************************************************************************)
\* One session scanning photos; the store starts missing.
InitQuest ==
  /\ InitWith(Shuffles, { MissingFile }, { 0 })
  /\ \A s \in Sessions : quest_items[s] = quest_items[1]

NextQuest ==
  \/ \E p \in Shuffles : new_quest(1, p)
  \/ \E b \in Batches(quest_items[1]) :
        session_score[1] < MaxScore /\ handle_detections(1, b, 45)
  \/ completed_step(1, today)
  \/ save_open(1)
  \/ save_dump(1)

SpecQuest == InitQuest /\ [][NextQuest]_vars

\* One session completing quest after quest, on any days; a photo shows
\* every target of the quest.
InitStore == InitWith({ PREFERRED_CLASSES }, InitFiles, Days)

NextStore ==
  \/ new_quest(1, PREFERRED_CLASSES)
  \/ \E t \in CompTimes :
        hist.completions < MaxCompletions
        /\ handle_detections(1, quest_items[1], t)
  \/ \E d \in { today, today + 1 } : completed_step(1, d)
  \/ save_open(1)
  \/ save_dump(1)
  \/ \E d \in Days : clock_change(d)

SpecStore == InitStore /\ [][NextStore]_vars

\* Sessions that each complete their quest against the shared store.
Init == InitWith({ PREFERRED_CLASSES }, InitFiles, Days)

Next ==
  \/ \E s \in Sessions, t \in CompTimes :
        handle_detections(s, quest_items[s], t)
  \/ \E s \in Sessions, d \in { today, today + 1 } : completed_step(s, d)
  \/ \E s \in Sessions : save_open(s)
  \/ \E s \in Sessions : save_dump(s)

Spec == Init /\ [][Next]_vars

\* progress.json as something else than the program can have left it: JSON
\* that is no object, and objects in which one value has the wrong type
Keys ==
  { "streak", "last_session_date", "trophies", "best_time",
    "total_quests_completed" }

WrongFiles ==
  { NonObjectFile }
  \cup { WrongFile(RecordFile(2, 1, << "First Quest!" >>, 90, 4), { k }) :
           k \in Keys }

\* One session completing quests while the store is in any shape, saves
\* fail and the process dies.
InitFault == InitWith({ PREFERRED_CLASSES }, InitFiles \cup WrongFiles, Days)

NextFault ==
  \/ new_quest(1, PREFERRED_CLASSES)
  \/ \E t \in CompTimes :
        /\ session_score[1] < MaxScore
        /\ hist.completions < MaxCompletions
        /\ handle_detections(1, quest_items[1], t)
  \/ \E d \in { today, today + 1 } : completed_step(1, d)
  \/ \E d \in { today, today + 1 } : completed_raises(1, d)
  \/ save_open(1)
  \/ save_open_fails(1)
  \/ save_dump(1)
  \/ save_dump_fails(1)
  \/ crash_in_save(1, PREFERRED_CLASSES)

SpecFault == InitFault /\ [][NextFault]_vars

\* completed_projects.json as earlier runs of the program left it
InitLogs ==
  { MissingFile, CorruptFile, ListFile(<< >>) }
  \cup { ListFile(<< record_of(p) >>) : p \in Projects }

\* One session marking projects as complete, one call after the other.
InitAppend ==
  /\ InitGame({ PREFERRED_CLASSES }, { MissingFile }, { 0 })
  /\ InitLog(InitLogs)
  /\ call = NoCall

NextAppend ==
  \/ \E p \in Projects : append_load(1, p)
  \/ log_open(1)
  \/ log_dump(1)

SpecAppend == InitAppend /\ [][NextAppend]_vars

\* Sessions marking projects as complete at the same time, on pages that
\* show the projects without detections (detected_names is None). A racing
\* write can drop a record, whose project can then be marked again: no
\* session starts another call once the log has been written MaxWrites
\* times.
RaceProjects == { p \in Projects : p.objects_detected = << >> }

InitRace == InitAppend

NextRace ==
  \/ \E s \in Sessions, p \in RaceProjects :
        Len(log_order) < MaxWrites /\ append_load(s, p)
  \/ \E s \in Sessions : log_open(s)
  \/ \E s \in Sessions : log_dump(s)

SpecRace == InitRace /\ [][NextRace]_vars

\* One session marking projects as complete and reading the log.
InitLogRead ==
  /\ InitGame({ PREFERRED_CLASSES }, { MissingFile }, { 0 })
  /\ InitLog({ MissingFile, CorruptFile, ListFile(<< >>) }
             \cup { ListFile(<< record_of(p) >>) : p \in RaceProjects })
  /\ call = NoCall

NextLog ==
  \/ \E p \in RaceProjects : append_load(1, p)
  \/ log_open(1)
  \/ log_dump(1)
  \/ load_all(1)
  \/ \E t \in Range(PROJECT_TITLES) : is_completed(1, t)

SpecLog == InitLogRead /\ [][NextLog]_vars

\* completed_projects.json as something else than the program can have left
\* it: JSON that is no array, and arrays with an entry that has no title
BadLogs ==
  LET r == record_of([title |-> PROJECT_TITLES[1], objects_detected |-> << >>])
  IN { NonArrayFile, ListFile(<< UntitledEntry >>),
       ListFile(<< r, UntitledEntry >>), ListFile(<< UntitledEntry, r >>) }

\* One session marking projects as complete and reading the log, the log in
\* any shape.
InitLogFault ==
  /\ InitGame({ PREFERRED_CLASSES }, { MissingFile }, { 0 })
  /\ InitLog({ MissingFile, CorruptFile } \cup BadLogs)
  /\ call = NoCall

NextLogFault ==
  \/ \E p \in RaceProjects : append_load(1, p)
  \/ \E p \in RaceProjects : append_raises(1, p)
  \/ log_open(1)
  \/ log_dump(1)
  \/ load_all(1)
  \/ \E t \in Range(PROJECT_TITLES) : is_completed(1, t)
  \/ \E t \in Range(PROJECT_TITLES) : is_completed_raises(1, t)

SpecLogFault == InitLogFault /\ [][NextLogFault]_vars

\* One call of a function that computes a quest or the suggestions, with
\* any of the arguments that are explored.
DetectedLists == SeqsUpTo(SuggestLabels, MaxDetected)

Calls ==
  { [op |-> "generate_quest", returned |-> FALSE, shuffled |-> p, n |-> n] :
      p \in Shuffles, n \in 0 .. MaxRequest }
  \cup { [op |-> "get_project_suggestions", returned |-> FALSE,
          catalog |-> c, detected_names |-> d, max_results |-> m] :
          c \in Catalogs, d \in DetectedLists, m \in -1 .. MaxResults }

InitCalls ==
  /\ InitGame({ PREFERRED_CLASSES }, { MissingFile }, { 0 })
  /\ InitLog({ MissingFile })
  /\ call \in Calls

NextCalls ==
  \/ /\ call.op = "generate_quest" /\ ~call.returned
     /\ call_generate_quest(call.shuffled, call.n)
  \/ /\ call.op = "get_project_suggestions" /\ ~call.returned
     /\ call_suggestions(call.catalog, call.detected_names, call.max_results)

SpecCalls == InitCalls /\ [][NextCalls]_vars

(***************************************************************************)
(* Properties of the quest tracker (SpecQuest).                            *)
(***************************************************************************)
NoDuplicates(seq) ==
  \A i, j \in 1 .. Len(seq) : i # j => seq[i] # seq[j]

\* how often the label occurs in the list
Count(seq, x) == Cardinality({ i \in 1 .. Len(seq) : seq[i] = x })

\* the step is a call of _handle_detections by session s on batch b (the
\* call leaves its batch in last_detections)
Handles(s, b) == handle_detections(s, b, 45)

\* C1: for one quest the completion handling runs exactly once, on the
\* batch that completes the quest: in every state the number of completions
\* signalled for the current quest is 1 if the quest is completed, else 0.
C1_CompletionSignalledOnce ==
  \A s \in Sessions : signals[s] = IF quest_completed[s] THEN 1 ELSE 0

\* a batch was handled after the quest was completed and recorded
C1_Witness ==
  /\ quest_completed[1] /\ signals[1] = 1 /\ pc[1] = "idle"
  /\ file.kind = "record"
  /\ last_detections[1] # << >> /\ newly_found[1] = << >>

\* C2: a call of ReportDetections adds exactly the batch's targets to found,
\* reports no label that was found before, and reports no label twice.
C2_ReportIdempotent ==
  [][ \A s \in Sessions : LET b == last_detections'[s] IN
        Handles(s, b) =>
          /\ quest_found'[s] =
               quest_found[s] \cup (Range(b) \cap Range(quest_items[s]))
          /\ Range(newly_found'[s]) \cap quest_found[s] = {}
          /\ NoDuplicates(newly_found'[s]) ]_vars

\* C3 as claimed: bonus is the batch's non-target labels, each once, and
\* each earns one bonus reward.
C3_BonusCollapsesDuplicates ==
  [][ \A s \in Sessions : LET b == last_detections'[s] IN
        Handles(s, b) =>
          LET others == Range(b) \ Range(quest_items[s])
          IN /\ Range(bonus_names'[s]) = others
             /\ NoDuplicates(bonus_names'[s])
             /\ session_score'[s] - session_score[s] =
                  TargetReward * Len(newly_found'[s])
                  + BonusReward * Cardinality(others) ]_vars

\* C3 as amended: bonus holds every detection of a non-target label, a label
\* as often as the batch shows it, and each detection earns a bonus reward.
C3_BonusKeepsDuplicates ==
  [][ \A s \in Sessions : LET b == last_detections'[s] IN
        Handles(s, b) =>
          LET others == { i \in 1 .. Len(b) : b[i] \notin Range(quest_items[s]) }
          IN /\ \A x \in Range(b) \cup Range(bonus_names'[s]) :
                  Count(bonus_names'[s], x) =
                    IF x \in Range(quest_items[s]) THEN 0 ELSE Count(b, x)
             /\ session_score'[s] - session_score[s] =
                  TargetReward * Len(newly_found'[s])
                  + BonusReward * Cardinality(others) ]_vars

\* one batch showed the same non-target label twice and earned two rewards
C3_Witness ==
  /\ Len(bonus_names[1]) = 2 /\ bonus_names[1][1] = bonus_names[1][2]
  /\ last_detections[1] = bonus_names[1]
  /\ session_score[1] = 2 * BonusReward

\* C4: found is a subset of the current quest's targets.
C4_FoundSubsetOfTargets ==
  \A s \in Sessions : quest_found[s] \subseteq Range(quest_items[s])

\* a batch with a target and a non-target was handled in a second quest
C4_Witness ==
  /\ session_score[1] > QuestSize * TargetReward
  /\ ~quest_completed[1]
  /\ quest_found[1] # {} /\ bonus_names[1] # << >>
  /\ newly_found[1] # << >>

\* C5: the completed flag is cleared by no step but NewQuest.
C5_CompletedMonotonic ==
  [][ \A s \in Sessions :
        quest_completed[s] /\ ~quest_completed'[s] =>
          \E p \in Shuffles : new_quest(s, p) ]_vars

\* a batch with a bonus label was handled while the quest was completed
C5_Witness ==
  /\ quest_completed[1] /\ pc[1] = "idle"
  /\ bonus_names[1] # << >> /\ newly_found[1] = << >>
  /\ last_detections[1] = bonus_names[1]

\* the quest holds QuestSize labels of the pool, no label twice
C20_QuestIsSample ==
  /\ NoDuplicates(PREFERRED_CLASSES)
  /\ \A s \in Sessions :
       /\ Len(quest_items[s]) = QuestSize
       /\ NoDuplicates(quest_items[s])
       /\ Range(quest_items[s]) \subseteq Range(PREFERRED_CLASSES)

\* NewQuest leaves nothing found and the quest not completed
C20_NewQuestResets ==
  \A s \in Sessions : \A p \in Shuffles :
    new_quest(s, p) =>
      /\ quest_items'[s] = SubSeq(p, 1, QuestSize)
      /\ quest_found'[s] = {}
      /\ ~quest_completed'[s]

\* C20: NewQuest(5) returns exactly 5 labels of the preferred pool, no two
\* the same, and leaves the found set empty and the completion flag
\* cleared.
C20_NewQuestSample ==
  [](C20_QuestIsSample) /\ [][C20_NewQuestResets]_vars

\* a new quest was started after a completed one, with other targets
C20_Witness ==
  /\ session_score[1] >= QuestSize * TargetReward
  /\ signals[1] = 0 /\ quest_found[1] = {} /\ ~quest_completed[1]
  /\ last_detections[1] = << >>
  /\ quest_items[1] = SubSeq(Rotate(PREFERRED_CLASSES, 1), 1, QuestSize)
  /\ file.kind = "record"

(***************************************************************************)
(* Properties of the progression store.                                    *)
(***************************************************************************)
IsPrefix(a, b) == Len(a) <= Len(b) /\ SubSeq(b, 1, Len(a)) = a

\* the streak law for a call that finds data in the store and reads day as
\* today
StreakLaw(data, day, after) ==
  /\ after.streak =
       IF data.last_session_date = None THEN 1
       ELSE IF data.last_session_date = day THEN data.streak
       ELSE IF day - data.last_session_date = 1 THEN data.streak + 1
       ELSE 1
  /\ after.last_session_date = day

\* C6: every RecordCompletion follows the streak law for the day of the
\* call (the day on which it starts or the day on which it ends).
C6_StreakLaw ==
  [][ \A s \in Sessions : \A d \in Days :
        completed_step(s, d) =>
          \E day \in { today, today' } :
            StreakLaw(progress[s], day, progress'[s]) ]_vars

\* a RecordCompletion keeps the trophies it finds, in their places, and
\* leaves no id twice
C7_StepKeepsTrophies ==
  \A s \in Sessions : \A d \in Days :
    completed_step(s, d) =>
      /\ IsPrefix(trophies_of(progress[s], defaults_trophies),
                  trophies_of(progress'[s], defaults_trophies'))
      /\ NoDuplicates(trophies_of(progress'[s], defaults_trophies'))

\* the stored list holds every id stored before it, each once
C7_StoredTrophiesKept ==
  file.kind = "record" =>
    /\ hist.stored \subseteq Range(file.trophies)
    /\ NoDuplicates(file.trophies)

\* C7: over any sequence of RecordCompletion calls the trophies never lose
\* an id, never shrink and never hold an id twice, in memory (every call
\* extends the list it finds) and in the store (a stored list holds every id
\* stored before it).
C7_TrophiesMonotonic ==
  [](C7_StoredTrophiesKept) /\ [][C7_StepKeepsTrophies]_vars

\* two completions in a row, both unlocking trophies, all of them stored
C7_Witness ==
  /\ hist.completions = 2 /\ pc[1] = "idle" /\ file.kind = "record"
  /\ new_trophies[1] # << >>
  /\ Len(file.trophies) > Len(new_trophies[1]) + 1
  /\ hist.stored = Range(file.trophies)

\* C8: while the store is missing or unreadable, Load returns the all-zero
\* record with no trophies.
C8_DefaultLoadIsDefault ==
  file.kind # "record" =>
    LET data == load_progress(file)
    IN /\ data.streak = 0
       /\ data.last_session_date = None
       /\ trophies_of(data, defaults_trophies) = << >>
       /\ data.best_time = None
       /\ data.total_quests_completed = 0

\* C9: once every completion has been saved, the stored total is the total
\* at the start plus the number of completions.
C9_NoLostCompletion ==
  (file.kind = "record" /\ \A s \in Sessions : pc[s] = "idle") =>
    file.total_quests_completed = hist.total0 + hist.completions

\* C10: the stored trophies hold every id that a finished save has stored.
C10_StoredTrophiesKeptInRace ==
  file.kind = "record" => hist.stored \subseteq Range(file.trophies)

\* the file holds a record as the program writes it
ValidRecord(f) == f.kind = "record" /\ f.wrong = {}

\* the all-default record
IsDefault(data, dflt_trophies) ==
  /\ data.wrong = {}
  /\ data.streak = 0
  /\ data.last_session_date = None
  /\ trophies_of(data, dflt_trophies) = << >>
  /\ data.best_time = None
  /\ data.total_quests_completed = 0

TrophyIds ==
  { "New Record!", "Speed Run Star" }
  \cup { STREAK_TROPHIES[i].trophy : i \in 1 .. Len(STREAK_TROPHIES) }
  \cup { QUEST_TROPHIES[i].trophy : i \in 1 .. Len(QUEST_TROPHIES) }

\* the rule of a trophy holds for a completion in time t that led from the
\* record before to the record after
RuleHolds(id, before, after, t) ==
  \/ id = "New Record!" /\ before.best_time # None /\ t < before.best_time
  \/ id = "Speed Run Star" /\ t <= SpeedRunSeconds
  \/ \E i \in 1 .. Len(STREAK_TROPHIES) :
        /\ id = STREAK_TROPHIES[i].trophy
        /\ after.streak >= STREAK_TROPHIES[i].threshold
  \/ \E i \in 1 .. Len(QUEST_TROPHIES) :
        /\ id = QUEST_TROPHIES[i].trophy
        /\ after.total_quests_completed >= QUEST_TROPHIES[i].threshold

\* C17: unlocked holds exactly the ids whose rule holds on the updated
\* record and that were not in trophies before, each once, and trophies
\* afterwards is trophies before followed by unlocked.
C17_UnlockedExact ==
  [][ \A s \in Sessions : \A d \in Days :
        completed_step(s, d) =>
          LET before == trophies_of(progress[s], defaults_trophies)
              after  == trophies_of(progress'[s], defaults_trophies')
          IN /\ Range(unlocked'[s]) =
                  { id \in TrophyIds :
                      /\ RuleHolds(id, progress[s], progress'[s],
                                   quest_comp_time[s])
                      /\ id \notin Range(before) }
             /\ NoDuplicates(unlocked'[s])
             /\ after = before \o unlocked'[s] ]_vars

\* a completion unlocked trophies while the rule of a trophy it held
\* already was satisfied again
C17_Witness ==
  /\ pc[1] = "save_open" /\ unlocked[1] # << >>
  /\ "First Quest!" \in Range(progress[1].trophies)
  /\ "First Quest!" \notin Range(unlocked[1])
  /\ "Speed Run Star" \in Range(unlocked[1])
  /\ hist.completions = 1

C19_StepLowersBest ==
  \A s \in Sessions : \A d \in Days :
    completed_step(s, d) =>
      /\ progress'[s].best_time # None
      /\ progress'[s].best_time <= quest_comp_time[s]
      /\ progress[s].best_time # None =>
            progress'[s].best_time <= progress[s].best_time

\* once every completion is stored, the stored best time is the least
\* completion time so far
C19_StoredBestIsLeast ==
  (file.kind = "record" /\ \A s \in Sessions : pc[s] = "idle") =>
    file.best_time = hist.min_time

\* C19: over any sequence of RecordCompletion calls the best time, once
\* set, never grows and never returns to None, and it is the least
\* completion time so far.
C19_BestTimeOnlyDecreases ==
  [](C19_StoredBestIsLeast) /\ [][C19_StepLowersBest]_vars

\* a second completion, slower than the first, left the best time alone
C19_Witness ==
  /\ pc[1] = "idle" /\ quest_completed[1] /\ hist.completions = 2
  /\ quest_comp_time[1] = 90 /\ file.kind = "record"
  /\ file.best_time = 45

(***************************************************************************)
(* Properties of the progression store when files are in any shape, saves  *)
(* fail and the process dies (SpecFault).                                  *)
(***************************************************************************)
\* C13: whenever the store holds no valid record (missing, unparseable, no
\* object, or an object with a value of the wrong type), Load returns the
\* all-default record; and no RecordCompletion raises.
C13_LoadNeverPropagates ==
  /\ ~ValidRecord(file) =>
        IsDefault(load_progress(file), defaults_trophies)
  /\ \A s \in Sessions : raised[s] # "on_quest_completed"

\* The part of C13 that holds: while the list of _DEFAULTS is as written, a
\* missing or unparseable store and JSON that is no object load as the
\* all-default record.
C13_UnreadableLoadsDefault ==
  (file.kind # "record" /\ defaults_trophies = << >>) =>
    IsDefault(load_progress(file), defaults_trophies)

\* C14: a failed Save is reported: the exception of save_progress leaves
\* the handler, and no session shows its quest as completed, with the
\* handler returned and no exception shown, while the store lacks the record
\* of that completion.
C14_SaveFailureSurfaced ==
  \A s \in Sessions :
    /\ save_hist[s].failed => raised[s] = "save_progress"
    /\ (quest_completed[s] /\ pc[s] = "idle" /\ raised[s] = "none") =>
          /\ file.kind = "record"
          /\ file.last_session_date = progress[s].last_session_date
          /\ file.total_quests_completed =
               progress[s].total_quests_completed
          /\ file.best_time = progress[s].best_time
          /\ file.best_time <= quest_comp_time[s]

\* a save failed after the file was opened: the quest shows as completed,
\* the store is cut off and the page shows the exception
C14_Witness ==
  /\ quest_completed[1] /\ pc[1] = "idle"
  /\ save_hist[1].failed /\ raised[1] = "save_progress"
  /\ file = CorruptFile /\ hist.completions = 1

\* C15: when the process dies during a Save, the store holds the complete
\* record it held before the Save or the complete new record.
C15_SaveAtomic ==
  [][ \A s \in Sessions :
        crash_in_save(s, PREFERRED_CLASSES) =>
          \/ file' = save_hist[s].before
          \/ file' = dumped(progress[s], defaults_trophies) ]_vars

(***************************************************************************)
(* Properties of the completed-project log.                                *)
(***************************************************************************)
\* the titles of the stored records, in their order
stored_titles == LET recs == load_raw(log_file)
                 IN [i \in 1 .. Len(recs) |-> recs[i].title]

\* C11: when concurrent Append calls have all returned, the log holds
\* exactly one record for each title that was appended.
C11_RaceKeepsEveryTitle ==
  (\A s \in Sessions : log_pc[s] = "idle") =>
    \A t \in appended : Count(stored_titles, t) = 1

\* no title is stored twice
C12_NoTitleTwice == NoDuplicates(stored_titles)

\* an Append of a stored title returns at once and writes nothing
C12_StoredTitleIgnored ==
  \A s \in Sessions : \A p \in Projects :
    (append_load(s, p) /\ p.title \in Range(stored_titles)) =>
      /\ log_file' = log_file
      /\ log_pc'[s] = "idle"
      /\ log_result'[s] = "ignored"

\* C12: the stored log never holds two records with the same title, and an
\* Append of a title that is stored returns at once and leaves the log as it
\* is, whatever else the project holds.
C12_IdempotentAppend ==
  [](C12_NoTitleTwice) /\ [][C12_StoredTitleIgnored]_vars

\* a stored title was appended again with other detected objects, after
\* another title had been appended
C12_Witness ==
  /\ log_result[1] = "ignored" /\ log_pc[1] = "idle"
  /\ Len(stored_titles) = 2
  /\ \E i \in 1 .. Len(records[1]) :
        /\ records[1][i].title = PROJECT_TITLES[1]
        /\ records[1][i].objects_detected # << >>
  /\ [title |-> PROJECT_TITLES[1], objects_detected |-> << >>] \in Projects

(***************************************************************************)
(* Properties of generate_quest and get_project_suggestions (SpecCalls).   *)
(***************************************************************************)
\* C21: generate_quest reports an error when more labels are requested than
\* the pool holds, instead of returning a quest with fewer labels.
C21_FailsFast ==
  (call.op = "generate_quest" /\ call.returned
                               /\ call.n > Len(PREFERRED_CLASSES)) =>
    call.raised

\* the last call is one of get_project_suggestions
Suggests == call.op = "get_project_suggestions" /\ call.returned

\* the entries of COMBO_MAP whose key is a subset of the detected labels
matched_combos(catalog, detected_set) ==
  { i \in 1 .. Len(catalog.combo_map) :
      catalog.combo_map[i].key \subseteq detected_set }

\* C22: the combo project of every combo key that is a subset of the
\* detected labels stands in the result before every single-object project
\* and is dropped by the truncation only, and an entry is flagged as a combo
\* only if all labels of its key are detected.
C22_ComboPriority ==
  Suggests =>
    LET res == call.result
        cm == call.catalog.combo_map
        matched == matched_combos(call.catalog, Range(call.detected_names))
        IsHit(k, i) == res[k].is_combo /\ res[k].title = cm[i].title
    IN /\ \A i \in matched : \A k \in 1 .. Len(res) :
            ~res[k].is_combo => \E j \in 1 .. k - 1 : IsHit(j, i)
       /\ \A i \in matched :
            (call.max_results >= 0 /\ Len(res) < call.max_results) =>
              \E j \in 1 .. Len(res) : IsHit(j, i)
       /\ \A k \in 1 .. Len(res) :
            res[k].is_combo =>
              /\ res[k].score = ComboScore
              /\ \E i \in matched : cm[i].title = res[k].title

\* a combo stands before a single-object project that matches two materials
C22_Witness ==
  /\ Suggests
  /\ Len(call.result) >= 2
  /\ call.result[1].is_combo
  /\ \E k \in 1 .. Len(call.result) :
        ~call.result[k].is_combo /\ call.result[k].score >= 2

\* C23: max_results <= 0 gives the empty list, no detected name gives the
\* empty list, and max_results >= 0 bounds the length of the result.
C23_EmptyAndBounded ==
  Suggests =>
    /\ call.max_results <= 0 => call.result = << >>
    /\ call.detected_names = << >> => call.result = << >>
    /\ call.max_results >= 0 => Len(call.result) <= call.max_results

\* the list with x put behind its first p entries
InsertAt(seq, p, x) ==
  SubSeq(seq, 1, p) \o << x >> \o SubSeq(seq, p + 1, Len(seq))

\* the candidates and the result of the last call stay as they are when the
\* label x is added to the detected names, wherever it is put
ContributesNothing(x) ==
  \A p \in 0 .. Len(call.detected_names) :
    LET more == InsertAt(call.detected_names, p, x)
    IN /\ candidates(call.catalog, more)
            = candidates(call.catalog, call.detected_names)
       /\ get_project_suggestions(call.catalog, more, call.max_results)
            = call.result

\* the keys of PROJECT_MAP
catalog_keys(catalog) ==
  { catalog.project_map[i].label : i \in 1 .. Len(catalog.project_map) }

\* the materials of the projects of one label
project_materials(projects) ==
  UNION { Range(projects[k].materials) : k \in 1 .. Len(projects) }

\* the labels the catalog reads: keys of PROJECT_MAP, labels of the keys of
\* COMBO_MAP, and materials of the projects of PROJECT_MAP
catalog_labels(catalog) ==
  catalog_keys(catalog)
  \cup UNION { catalog.combo_map[i].key : i \in 1 .. Len(catalog.combo_map) }
  \cup UNION { project_materials(catalog.project_map[i].projects) :
                 i \in 1 .. Len(catalog.project_map) }

\* a detected label that is no key of PROJECT_MAP contributes nothing
C24_NonKeyContributesNothing ==
  Suggests =>
    \A x \in SuggestLabels \ catalog_keys(call.catalog) :
      ContributesNothing(x)

\* C24: a detected label that is no key of PROJECT_MAP, in no key of
\* COMBO_MAP and no material of a project of PROJECT_MAP contributes
\* nothing: adding it leaves the candidates, their scores and the result
\* unchanged.
C24_UnlistedContributesNothing ==
  Suggests =>
    \A x \in SuggestLabels \ catalog_labels(call.catalog) :
      ContributesNothing(x)

\* a label the catalog does not read was detected among labels that score
C24_Witness ==
  /\ Suggests
  /\ \E x \in Range(call.detected_names) : x \notin catalog_labels(call.catalog)
  /\ \E k \in 1 .. Len(call.result) : call.result[k].score >= 2

\* the place of the i-th candidate in the ranking: behind every candidate
\* of a greater score and every earlier candidate of the same score
Rank(cands, i) ==
  Cardinality({ j \in 1 .. Len(cands) : cands[j].score > cands[i].score })
  + Cardinality({ j \in 1 .. i - 1 : cands[j].score = cands[i].score })
  + 1

\* C25: the result is the candidate list in descending order of score,
\* candidates of equal score in the order of their selection, cut to its
\* first max_results entries.
C25_Ranking ==
  (Suggests /\ call.max_results >= 0) =>
    LET cands == candidates(call.catalog, call.detected_names)
        n == IF call.max_results < Len(cands) THEN call.max_results
             ELSE Len(cands)
    IN /\ Len(call.result) = n
       /\ \A i \in 1 .. Len(cands) :
            Rank(cands, i) <= n => call.result[Rank(cands, i)] = cands[i]

\* the sort has moved candidates, two entries of the result have the same
\* score, and the truncation has dropped candidates
C25_Witness ==
  /\ Suggests
  /\ call.max_results >= 2
  /\ LET cands == candidates(call.catalog, call.detected_names)
     IN /\ Len(call.result) < Len(cands)
        /\ call.result # Slice(cands, call.max_results)
        /\ \E i, j \in 1 .. Len(call.result) :
              i < j /\ call.result[i].score = call.result[j].score

\* every selection of the two passes, seen_titles left aside
selected(catalog, detected_names) ==
  LET dset == Range(detected_names)
      cm == catalog.combo_map
      C[i \in 0 .. Len(cm)] ==
        IF i = 0 THEN << >>
        ELSE IF cm[i].key \subseteq dset
             THEN Append(C[i - 1], combo_candidate(cm[i]))
             ELSE C[i - 1]
      P(projects) ==
        [k \in 1 .. Len(projects) |-> single_candidate(projects[k], dset)]
      S[i \in 0 .. Len(detected_names)] ==
        IF i = 0 THEN C[Len(cm)]
        ELSE S[i - 1] \o P(projects_of(catalog.project_map, detected_names[i]))
  IN S[Len(detected_names)]

\* the first selection with the title
first_selected(sel, title) ==
  sel[CHOOSE i \in 1 .. Len(sel) :
        /\ sel[i].title = title
        /\ \A j \in 1 .. i - 1 : sel[j].title # title]

\* C26: every title stands at most once in the result, and the entry that
\* is kept is the first one that was selected, so that a combo wins over a
\* single-object project of the same title.
C26_Dedup ==
  Suggests =>
    LET res == call.result
        sel == selected(call.catalog, call.detected_names)
    IN \A i \in 1 .. Len(res) :
         /\ \A j \in 1 .. Len(res) : j # i => res[j].title # res[i].title
         /\ res[i] = first_selected(sel, res[i].title)

\* a label was detected twice, a combo carries the title of a project of a
\* detected label, and a title that two detected labels list is in the
\* result
C26_Witness ==
  /\ Suggests
  /\ call.catalog = RetitledCatalog
  /\ Len(call.detected_names) > Cardinality(Range(call.detected_names))
  /\ { "bottle", "cup" } \subseteq Range(call.detected_names)
  /\ \E k \in 1 .. Len(call.result) :
        /\ call.result[k].is_combo
        /\ call.result[k].title = PROJECT_MAP[2].projects[1].title
  /\ \E k \in 1 .. Len(call.result) :
        /\ ~call.result[k].is_combo
        /\ call.result[k].title = PROJECT_MAP[2].projects[2].title

\* C30: two lists of detected names with the same set of labels, in another
\* order or with other repetitions, give the same ordered result.
C30_DependsOnSetOnly ==
  Suggests =>
    \A other \in { Reverse(call.detected_names),
                   call.detected_names \o call.detected_names } :
      get_project_suggestions(call.catalog, other, call.max_results)
        = call.result

(***************************************************************************)
(* Properties of the reads of the completed-project log (SpecLog,          *)
(* SpecLogFault).                                                          *)
(***************************************************************************)
\* the log cannot be read as a list of records with a title
UnreadableLog ==
  log_file.kind # "list" \/ titles_raise(log_file.records)

\* C27: save_completed_project, load_completed_projects and
\* is_project_completed treat a log that is missing, unparseable, no array
\* or an array with an entry without a title as the empty list, and none of
\* them raises.
C27_UnreadableLogIsEmpty ==
  /\ \A s \in Sessions : log_result[s] # "raised"
  /\ call.op \in { "load_completed_projects", "is_project_completed" } =>
       /\ ~call.raised
       /\ ((\A s \in Sessions : log_pc[s] = "idle") /\ UnreadableLog) =>
            call.result = IF call.op = "load_completed_projects"
                          THEN << >> ELSE FALSE

\* the stored records are the written records, in the order of the writes
C28_LogIsAppendOrder ==
  (\A s \in Sessions : log_pc[s] = "idle") =>
    titles_of(load_raw(log_file)) = log_order

\* a read returns the written records newest first, and says of a title
\* whether it was written
C28_ReadsFollowOrder ==
  call' # call =>
    /\ ~call'.raised
    /\ call'.op = "load_completed_projects" =>
         titles_of(call'.result) = Reverse(log_order)
    /\ call'.op = "is_project_completed" =>
         call'.result = (call'.title \in Range(log_order))

\* C28: the log is append-only and load_completed_projects returns it
\* newest first: after any appends of distinct titles it returns the records
\* in the reverse of the order they were appended, and is_project_completed
\* is true exactly for the appended titles.
C28_NewestFirst ==
  [](C28_LogIsAppendOrder) /\ [][C28_ReadsFollowOrder]_vars

\* the log was read after two projects had been appended to a log that held
\* another one
C28_Witness ==
  /\ call.op = "load_completed_projects"
  /\ Len(call.result) = 3
  /\ log_result[1] = "appended"
  /\ call.result = load_completed_projects(log_file)

(***************************************************************************)
(* Properties of the score (SpecQuest).                                    *)
(***************************************************************************)
\* C29: the points awarded for target hits in the current quest are the
\* reward times the number of found labels, hence at most the reward times
\* the size of the quest.
C29_TargetPointsMatchFound ==
  \A s \in Sessions :
    /\ target_points[s] = TargetReward * Cardinality(quest_found[s])
    /\ target_points[s] <= TargetReward * QuestSize

====
